---- MODULE Spec2Model ----
(***************************************************************************)
(* yet-another-rchip8: the CHIP-8 machine of src/machine.rs, its display   *)
(* grid (src/video.rs), key latch (src/keyboard.rs) and instruction        *)
(* decoder (src/instruction.rs), together with the select loop that drives *)
(* CPU cycles and timer ticks.                                             *)
(***************************************************************************)
EXTENDS Integers, Sequences, FiniteSets, TLC

\* ------------------------------------------------------------------------
\* Program constants
\* ------------------------------------------------------------------------
MEMORY_SIZE == 4096
RESERVED_MEMORY_SIZE == 512
REGISTER_COUNT == 16
STACK_SIZE == 16
WIDTH == 64
HEIGHT == 32
KEY_COUNT == 16
FONT_BASE == 80
START_PC == 512

\* ------------------------------------------------------------------------
\* Bounds of the model
\* ------------------------------------------------------------------------
\* notifications that may wait in each of the two unbounded channels
MaxQueue == 1
\* host events that may wait in the SDL event queue
MaxEvents == 1
\* call depth explored (the Vec<u16> stack itself has no limit)
MaxStack == 17

VARIABLES
    memory,        \* Machine.memory: [u8; 4096]
    registers,     \* Machine.registers: [u8; 16]
    pc,            \* Machine.pc: u16
    i,             \* Machine.i: u16
    stack,         \* Machine.stack: Vec<u16>
    delay_timer,   \* Machine.delay_timer: u8
    sound_timer,   \* Machine.sound_timer: u8
    keys,          \* KeyBoard.keys: [bool; 16]
    grid,          \* Video.grid: Vec<Vec<u8>>, grid[x][y]
    audio,         \* the audio device: TRUE while resumed (playing)
    rom,           \* main's `rom`: the image read by ROM::new
    phase,         \* position of main: load_font, load_rom, run, running, exit_ok, load_err, panicked
    running,       \* run's local `running`
    timer_q,       \* notifications waiting in timer_rx
    clock_q,       \* notifications waiting in clock_rx
    events,        \* host events waiting in the SDL event pump
    instr,         \* run_cycle's local `opcode` of the last fetch
    last,          \* the select branch served last: none, timer, clock
    canvas,        \* Video.canvas: the points of the frame presented last
    layout,        \* the table handed to KeyBoard::new
    keys_map,      \* KeyBoard.keys_map: HashMap<u8, Scancode>
    scancodes_map, \* KeyBoard.scancodes_map: HashMap<Scancode, u8>
    fields         \* run_cycle's local (kind, x, y, n, nn, nnn) of the last decode

vars == <<memory, registers, pc, i, stack, delay_timer, sound_timer, keys, grid,
          audio, rom, phase, running, timer_q, clock_q, events, instr, last,
          canvas, layout, keys_map, scancodes_map, fields>>

keyboard_vars == <<layout, keys_map, scancodes_map>>

machine_vars == <<memory, registers, pc, i, stack, delay_timer, sound_timer, keys, grid>>

\* ------------------------------------------------------------------------
\* 8-bit helpers
\* ------------------------------------------------------------------------
Bit(v, k) == (v \div (2 ^ k)) % 2

BitAnd(a, b) ==
    LET s[k \in 0..8] == IF k = 8 THEN 0 ELSE Bit(a, k) * Bit(b, k) * (2 ^ k) + s[k + 1]
    IN s[0]

BitOr(a, b) ==
    LET s[k \in 0..8] ==
            IF k = 8 THEN 0
            ELSE (IF Bit(a, k) + Bit(b, k) > 0 THEN 2 ^ k ELSE 0) + s[k + 1]
    IN s[0]

BitXor(a, b) ==
    LET s[k \in 0..8] ==
            IF k = 8 THEN 0
            ELSE (IF Bit(a, k) # Bit(b, k) THEN 2 ^ k ELSE 0) + s[k + 1]
    IN s[0]

\* u8::overflowing_add / overflowing_sub: <<wrapped value, overflow flag>>
overflowing_add(a, b) == [val |-> (a + b) % 256, flag |-> a + b > 255]
overflowing_sub(a, b) == [val |-> (a - b + 256) % 256, flag |-> a < b]
bool_as_u8(f) == IF f THEN 1 ELSE 0

\* ------------------------------------------------------------------------
\* Instruction (src/instruction.rs)
\* ------------------------------------------------------------------------
\* u16 operators: >>, <<, & and |
Shr(w, k) == w \div (2 ^ k)
Shl16(w, k) == (w * (2 ^ k)) % 65536
\* & and | of two nibbles, bit by bit
AndNibble ==
    [a \in 0..15 |-> [b \in 0..15 |->
        Bit(a, 0) * Bit(b, 0) + 2 * Bit(a, 1) * Bit(b, 1)
        + 4 * Bit(a, 2) * Bit(b, 2) + 8 * Bit(a, 3) * Bit(b, 3)]]
OrNibble ==
    [a \in 0..15 |-> [b \in 0..15 |->
        (IF Bit(a, 0) + Bit(b, 0) > 0 THEN 1 ELSE 0) + (IF Bit(a, 1) + Bit(b, 1) > 0 THEN 2 ELSE 0)
        + (IF Bit(a, 2) + Bit(b, 2) > 0 THEN 4 ELSE 0) + (IF Bit(a, 3) + Bit(b, 3) > 0 THEN 8 ELSE 0)]]
\* the nibble of w that starts at bit 4 * k
Nibble(w, k) == (w \div (16 ^ k)) % 16
BitAnd16(a, b) ==
    AndNibble[Nibble(a, 0)][Nibble(b, 0)] + 16 * AndNibble[Nibble(a, 1)][Nibble(b, 1)]
    + 256 * AndNibble[Nibble(a, 2)][Nibble(b, 2)] + 4096 * AndNibble[Nibble(a, 3)][Nibble(b, 3)]
BitOr16(a, b) ==
    OrNibble[Nibble(a, 0)][Nibble(b, 0)] + 16 * OrNibble[Nibble(a, 1)][Nibble(b, 1)]
    + 256 * OrNibble[Nibble(a, 2)][Nibble(b, 2)] + 4096 * OrNibble[Nibble(a, 3)][Nibble(b, 3)]

\* (high as u16) << 8 | low as u16
Instruction_new(high, low) == BitOr16(Shl16(high, 8), low)
\* (opcode >> 12 & 0x0f) as u8
kind(opcode) == BitAnd16(Shr(opcode, 12), 15) % 256
\* x without the mask: opcode >> 8
x_field_no_mask(opcode) == Shr(opcode, 8)
\* (opcode >> 8 & 0x0f) as usize
x_field(opcode) == BitAnd16(Shr(opcode, 8), 15)
\* (opcode >> 4 & 0x0f) as usize
y_field(opcode) == BitAnd16(Shr(opcode, 4), 15)
\* (opcode & 0x0f) as u8
n_field(opcode) == BitAnd16(opcode, 15) % 256
\* (opcode & 0xff) as u8
nn_field(opcode) == BitAnd16(opcode, 255) % 256
\* opcode & 0xfff
nnn_field(opcode) == BitAnd16(opcode, 4095)
decode(opcode) ==
    [kind |-> kind(opcode), x |-> x_field(opcode), y |-> y_field(opcode),
     n |-> n_field(opcode), nn |-> nn_field(opcode), nnn |-> nnn_field(opcode)]

\* ------------------------------------------------------------------------
\* Video (src/video.rs)
\* ------------------------------------------------------------------------
clear == [cx \in 0..(WIDTH - 1) |-> [cy \in 0..(HEIGHT - 1) |-> 0]]

\* Video::flip: rows r < n with y + r < 32 and columns c < 8 with x + c < 64
\* are visited once each; a set sprite bit turns a 1 pixel off (and raises the
\* flag) and a 0 pixel on.  data is the slice memory[I .. I+n], 1-indexed here.
\* flip drawing by OR: a set sprite bit always turns the pixel on
flip_or(g, x, y, n, data) ==
    LET rows == IF n < Len(data) THEN n ELSE Len(data)
        cols == {cx \in x..(x + 7) : cx < WIDTH}
        lines == {cy \in y..(y + rows - 1) : cy < HEIGHT}
        bits(cx, cy) == Bit(data[cy - y + 1], 7 - (cx - x))
        pixel(cx, cy) == IF bits(cx, cy) = 1 THEN 1 ELSE g[cx][cy]
    IN  [grid |-> [cx \in cols |-> [cy \in lines |-> pixel(cx, cy)] @@ g[cx]] @@ g,
         flag |-> IF \E cx \in cols, cy \in lines : g[cx][cy] = 1 /\ bits(cx, cy) = 1
                  THEN 1 ELSE 0]

flip(g, x, y, n, data) ==
    LET rows == IF n < Len(data) THEN n ELSE Len(data)
        \* the columns and rows the two loops reach before their breaks
        cols == {cx \in x..(x + 7) : cx < WIDTH}
        lines == {cy \in y..(y + rows - 1) : cy < HEIGHT}
        bits(cx, cy) == Bit(data[cy - y + 1], 7 - (cx - x))
        pixel(cx, cy) ==
            IF g[cx][cy] = 1 /\ bits(cx, cy) = 1 THEN 0
            ELSE IF g[cx][cy] = 0 /\ bits(cx, cy) = 1 THEN 1
            ELSE g[cx][cy]
    IN  [grid |-> [cx \in cols |-> [cy \in lines |-> pixel(cx, cy)] @@ g[cx]] @@ g,
         flag |-> IF \E cx \in cols, cy \in lines : g[cx][cy] = 1 /\ bits(cx, cy) = 1
                  THEN 1 ELSE 0]

\* Video::draw: the canvas is cleared, a point is drawn for every pixel of the
\* grid that is not 0, and the frame is presented
draw(g) ==
    IF g = clear THEN {}
    ELSE {p \in (0..(WIDTH - 1)) \X (0..(HEIGHT - 1)) : g[p[1]][p[2]] # 0}

\* ------------------------------------------------------------------------
\* KeyBoard (src/keyboard.rs)
\* ------------------------------------------------------------------------
None == -1

key_down(ks, key) == [ks EXCEPT ![key] = TRUE]
\* a key_up that leaves the latch as it is
key_up_ignored(ks, key) == ks

key_up(ks, key) == [ks EXCEPT ![key] = FALSE]
is_key_down(ks, key) == ks[key]

\* the lowest latched key, or None
first_down_key(ks) ==
    IF \E k \in 0..(KEY_COUNT - 1) : ks[k]
    THEN CHOOSE k \in 0..(KEY_COUNT - 1) : ks[k] /\ \A j \in 0..(k - 1) : ~ks[j]
    ELSE None

default_keyboard_layout ==
    [k \in 0..(KEY_COUNT - 1) |->
        <<"X", "Num1", "Num2", "Num3", "Q", "W", "E", "A",
          "S", "D", "Z", "C", "Num4", "R", "F", "V">>[k + 1]]

key_to_scancode(key) ==
    IF key \in DOMAIN default_keyboard_layout THEN default_keyboard_layout[key] ELSE "None"

scancode_to_key(scancode) ==
    IF \E k \in DOMAIN default_keyboard_layout : default_keyboard_layout[k] = scancode
    THEN CHOOSE k \in DOMAIN default_keyboard_layout : default_keyboard_layout[k] = scancode
    ELSE None

\* the scancodes of a layout (the keys of scancodes_map after the inserts)
Scancodes(table) == {table[k] : k \in DOMAIN table}

\* KeyBoard::new: Err (ok = FALSE) unless the layout has 16 entries and its
\* scancodes make 16 entries of scancodes_map.  A scancode that two keys share
\* keeps the key inserted last; that layout is refused, so the order of the
\* inserts never shows.
KeyBoard_new(table) ==
    LET inverse == [s \in Scancodes(table) |-> CHOOSE k \in DOMAIN table : table[k] = s]
    IN IF Cardinality(DOMAIN table) # KEY_COUNT THEN [ok |-> FALSE]
       ELSE IF Cardinality(DOMAIN table) # KEY_COUNT \/ Cardinality(DOMAIN inverse) # KEY_COUNT
            THEN [ok |-> FALSE]
            ELSE [ok |-> TRUE, keys_map |-> table, scancodes_map |-> inverse]

\* KeyBoard::default
KeyBoard_default == KeyBoard_new(default_keyboard_layout)

\* ------------------------------------------------------------------------
\* Machine (src/machine.rs): the machine as a record, one operator per
\* method or match arm
\* ------------------------------------------------------------------------
Machine ==
    [memory |-> memory, registers |-> registers, pc |-> pc, i |-> i, stack |-> stack,
     delay_timer |-> delay_timer, sound_timer |-> sound_timer, keys |-> keys,
     grid |-> grid, panic |-> FALSE]

\* a Rust panic (index out of range, unwrap on None, checked overflow)
Panic(m) == [m EXCEPT !.panic = TRUE]

DEFAULTFONT ==
    << 240, 144, 144, 144, 240,   32,  96,  32,  32, 112,
       240,  16, 240, 128, 240,  240,  16, 240,  16, 240,
       144, 144, 240,  16,  16,  240, 128, 240,  16, 240,
       240, 128, 240, 144, 240,  240,  16,  32,  64,  64,
       240, 144, 240, 144, 240,  240, 144, 240,  16, 240,
       240, 144, 240, 144, 144,  224, 144, 224, 144, 224,
       240, 128, 128, 128, 240,  224, 144, 144, 144, 224,
       240, 128, 240, 128, 240,  240, 128, 240, 128, 128 >>

\* copy_from_slice / clone_from_slice: memory[start .. start + len) = bytes
copy_from_slice(mem, start, bytes) ==
    [a \in 0..(MEMORY_SIZE - 1) |->
        IF a >= start /\ a < start + Len(bytes) THEN bytes[a - start + 1] ELSE mem[a]]

\* load_font writing the font where the program goes
load_font_at_start(mem) == copy_from_slice(mem, START_PC, DEFAULTFONT)

load_font(mem) == copy_from_slice(mem, FONT_BASE, DEFAULTFONT)

\* Machine::new: memory: [0; MEMORY_SIZE]
ZeroMemory == [a \in 0..(MEMORY_SIZE - 1) |-> 0]
FontMemory == load_font(ZeroMemory)

\* load_rom refusing an image of exactly 4096 - 512 bytes
load_rom_off_by_one(mem, start, image) ==
    IF Len(image) >= MEMORY_SIZE - RESERVED_MEMORY_SIZE
    THEN [ok |-> FALSE, memory |-> mem]
    ELSE [ok |-> TRUE, memory |-> copy_from_slice(mem, start, image)]

\* load_rom: Err (ok = FALSE) when the image is longer than 4096 - 512 bytes,
\* otherwise the image is copied to memory[pc .. pc + len)
load_rom(mem, start, image) ==
    IF Len(image) > MEMORY_SIZE - RESERVED_MEMORY_SIZE
    THEN [ok |-> FALSE, memory |-> mem]
    ELSE [ok |-> TRUE, memory |-> copy_from_slice(mem, start, image)]

\* fetch: both bytes are read by index, then pc += 2
fetch(m) ==
    IF m.pc + 1 >= MEMORY_SIZE
    THEN [instr |-> 0, m |-> Panic(m)]
    ELSE [instr |-> Instruction_new(m.memory[m.pc], m.memory[m.pc + 1]),
          m |-> [m EXCEPT !.pc = m.pc + 2]]

\* 8xy4
add(regs, x, y) ==
    LET r == overflowing_add(regs[x], regs[y])
        r1 == [regs EXCEPT ![15] = bool_as_u8(r.flag)]
    IN [r1 EXCEPT ![x] = r.val]

\* 8xy5
sub(regs, x, y) ==
    LET r == overflowing_sub(regs[x], regs[y])
        r1 == [regs EXCEPT ![15] = bool_as_u8(~r.flag)]
    IN [r1 EXCEPT ![x] = r.val]

\* 8xy7
subb(regs, x, y) ==
    LET r == overflowing_sub(regs[y], regs[x])
        r1 == [regs EXCEPT ![15] = bool_as_u8(~r.flag)]
    IN [r1 EXCEPT ![x] = r.val]

\* 8xy6: VF is written first, then Vx is shifted
shr(regs, x) ==
    LET r1 == [regs EXCEPT ![15] = BitAnd(regs[x], 1)]
    IN [r1 EXCEPT ![x] = r1[x] \div 2]

\* 8xyE
shl(regs, x) ==
    LET r1 == [regs EXCEPT ![15] = regs[x] \div 128]
    IN [r1 EXCEPT ![x] = (r1[x] * 2) % 256]

\* 00EE that falls through when there is nothing to pop
op_0_unwrap_or(m, opcode) ==
    IF opcode = 224 THEN [m EXCEPT !.grid = clear]
    ELSE IF opcode = 238
         THEN IF m.stack = <<>> THEN m
              ELSE [m EXCEPT !.pc = m.stack[Len(m.stack)],
                             !.stack = SubSeq(m.stack, 1, Len(m.stack) - 1)]
         ELSE m

op_0(m, opcode) ==
    IF opcode = 224 THEN [m EXCEPT !.grid = clear]
    ELSE IF opcode = 238
         THEN IF m.stack = <<>> THEN Panic(m)
              ELSE [m EXCEPT !.pc = m.stack[Len(m.stack)],
                             !.stack = SubSeq(m.stack, 1, Len(m.stack) - 1)]
         ELSE m

\* 1NNN as a jump relative to the PC after the fetch
op_1_relative(m, nnn) == [m EXCEPT !.pc = (m.pc + nnn) % 65536]

op_1(m, nnn) == [m EXCEPT !.pc = nnn]

\* 2NNN pushing the address of the call itself
op_2_push_call_site(m, nnn) == [m EXCEPT !.stack = Append(m.stack, m.pc - 2), !.pc = nnn]

op_2(m, nnn) == [m EXCEPT !.stack = Append(m.stack, m.pc), !.pc = nnn]

op_3(m, x, nn) == IF m.registers[x] = nn THEN [m EXCEPT !.pc = m.pc + 2] ELSE m

op_4(m, x, nn) == IF m.registers[x] # nn THEN [m EXCEPT !.pc = m.pc + 2] ELSE m

op_5(m, x, y) == IF m.registers[x] = m.registers[y] THEN [m EXCEPT !.pc = m.pc + 2] ELSE m

op_6(m, x, nn) == [m EXCEPT !.registers[x] = nn]

\* 7XNN that writes the carry of the addition to VF
op_7_carry(m, x, nn) ==
    [m EXCEPT !.registers[x] = overflowing_add(m.registers[x], nn).val,
              !.registers[15] = bool_as_u8(overflowing_add(m.registers[x], nn).flag)]

op_7(m, x, nn) == [m EXCEPT !.registers[x] = overflowing_add(m.registers[x], nn).val]

op_8(m, x, y, n) ==
    LET r == m.registers IN
    CASE n = 0 -> [m EXCEPT !.registers[x] = r[y]]
      [] n = 1 -> [m EXCEPT !.registers[x] = BitOr(r[x], r[y])]
      [] n = 2 -> [m EXCEPT !.registers[x] = BitAnd(r[x], r[y])]
      [] n = 3 -> [m EXCEPT !.registers[x] = BitXor(r[x], r[y])]
      [] n = 4 -> [m EXCEPT !.registers = add(r, x, y)]
      [] n = 5 -> [m EXCEPT !.registers = sub(r, x, y)]
      [] n = 7 -> [m EXCEPT !.registers = subb(r, x, y)]
      [] n = 6 -> [m EXCEPT !.registers = shr(r, x)]
      [] n = 14 -> [m EXCEPT !.registers = shl(r, x)]
      [] OTHER -> m

op_9(m, x, y) == IF m.registers[x] # m.registers[y] THEN [m EXCEPT !.pc = m.pc + 2] ELSE m

op_A(m, nnn) == [m EXCEPT !.i = nnn]

op_B(m, nnn) == [m EXCEPT !.pc = nnn + m.registers[0]]

op_C(m, x, nn, r1) == [m EXCEPT !.registers[x] = BitAnd(r1, nn)]

\* DXYN: the slice memory[I .. I+n] panics when it ends past the memory
op_D(m, x, y, n) ==
    LET px == m.registers[x] % 64
        py == m.registers[y] % 32
    IN IF m.i + n > MEMORY_SIZE THEN Panic(m)
       ELSE LET data == [r \in 1..n |-> m.memory[m.i + r - 1]]
                f == flip(m.grid, px, py, n, data)
            IN [m EXCEPT !.grid = f.grid, !.registers[15] = f.flag]

\* EX9E / EXA1: keys[Vx] is indexed before nn is looked at
op_E(m, x, nn) ==
    LET key == m.registers[x] IN
    IF key >= KEY_COUNT THEN Panic(m)
    ELSE LET required_key_pressed == is_key_down(m.keys, key) IN
         IF (required_key_pressed /\ nn = 158) \/ (~required_key_pressed /\ nn = 161)
         THEN [m EXCEPT !.pc = m.pc + 2]
         ELSE m

\* FX0A that leaves the key latched
op_F0A_no_key_up(m, x) ==
    LET pressed_key == first_down_key(m.keys) IN
    IF pressed_key # None
    THEN [m EXCEPT !.registers[x] = pressed_key]
    ELSE [m EXCEPT !.pc = m.pc - 2]

\* FX0A
op_F0A(m, x) ==
    LET pressed_key == first_down_key(m.keys) IN
    IF pressed_key # None
    THEN [m EXCEPT !.registers[x] = pressed_key, !.keys = key_up(m.keys, pressed_key)]
    ELSE [m EXCEPT !.pc = m.pc - 2]

\* FX1E: u16 addition; on overflow a build with overflow checks panics and a
\* build without them wraps (wrap chooses between the two)
op_F1E(m, x, wrap) ==
    LET s == m.i + m.registers[x] IN
    IF s <= 65535 THEN [m EXCEPT !.i = s]
    ELSE IF wrap THEN [m EXCEPT !.i = s % 65536] ELSE Panic(m)

\* FX33: memory[I+2] is written first
op_F33(m, x) ==
    LET v == m.registers[x] IN
    IF m.i + 2 >= MEMORY_SIZE THEN Panic(m)
    ELSE [m EXCEPT !.memory = [m.memory EXCEPT ![m.i + 2] = v % 10,
                                                ![m.i + 1] = (v \div 10) % 10,
                                                ![m.i] = (v \div 10) \div 10]]

\* FX55
op_F55(m, x) ==
    IF m.i + x >= MEMORY_SIZE THEN Panic(m)
    ELSE [m EXCEPT !.memory = copy_from_slice(m.memory, m.i,
                                               [k \in 1..(x + 1) |-> m.registers[k - 1]])]

\* FX65
op_F65(m, x) ==
    IF m.i + x >= MEMORY_SIZE THEN Panic(m)
    ELSE [m EXCEPT !.registers = [k \in 0..(REGISTER_COUNT - 1) |->
                                   IF k <= x THEN m.memory[m.i + k] ELSE m.registers[k]]]

op_F(m, x, nn, wrap) ==
    CASE nn = 7 -> [m EXCEPT !.registers[x] = m.delay_timer]
      [] nn = 21 -> [m EXCEPT !.delay_timer = m.registers[x]]
      [] nn = 24 -> [m EXCEPT !.sound_timer = m.registers[x]]
      [] nn = 30 -> op_F1E(m, x, wrap)
      [] nn = 10 -> op_F0A(m, x)
      [] nn = 41 -> [m EXCEPT !.i = FONT_BASE + 5 * m.registers[x]]
      [] nn = 51 -> op_F33(m, x)
      [] nn = 85 -> op_F55(m, x)
      [] nn = 101 -> op_F65(m, x)
      [] OTHER -> m

\* the match on kind, applied to the machine after the fetch
execute(m, opcode, r1, wrap) ==
    LET d == decode(opcode) IN
    CASE d.kind = 0 -> op_0(m, opcode)
      [] d.kind = 1 -> op_1(m, d.nnn)
      [] d.kind = 2 -> op_2(m, d.nnn)
      [] d.kind = 3 -> op_3(m, d.x, d.nn)
      [] d.kind = 4 -> op_4(m, d.x, d.nn)
      [] d.kind = 5 -> op_5(m, d.x, d.y)
      [] d.kind = 6 -> op_6(m, d.x, d.nn)
      [] d.kind = 7 -> op_7(m, d.x, d.nn)
      [] d.kind = 8 -> op_8(m, d.x, d.y, d.n)
      [] d.kind = 9 -> op_9(m, d.x, d.y)
      [] d.kind = 10 -> op_A(m, d.nnn)
      [] d.kind = 11 -> op_B(m, d.nnn)
      [] d.kind = 12 -> op_C(m, d.x, d.nn, r1)
      [] d.kind = 13 -> op_D(m, d.x, d.y, d.n)
      [] d.kind = 14 -> op_E(m, d.x, d.nn)
      [] d.kind = 15 -> op_F(m, d.x, d.nn, wrap)
      [] OTHER -> m

run_cycle(m, r1, wrap) ==
    LET f == fetch(m) IN
    IF f.m.panic THEN f.m ELSE execute(f.m, f.instr, r1, wrap)

\* timers decremented with wrapping_sub, without the > 0 tests
tick_timers_wrapping(dt, st) ==
    [delay_timer |-> (dt + 255) % 256,
     sound_timer |-> (st + 255) % 256,
     audio |-> st > 0]

\* the two timers on a timer notification
tick_timers(dt, st) ==
    [delay_timer |-> IF dt > 0 THEN dt - 1 ELSE dt,
     sound_timer |-> IF st > 0 THEN st - 1 ELSE st,
     audio |-> st > 0]

\* process_key_event that empties the event pump without latching anything
process_key_event_lost(ks, run, evs) == [keys |-> ks, running |-> run]

\* process_key_event in which the first event of a key decides its latch
process_key_event_first_wins(ks, run, evs) ==
    LET about(j, k) == evs[j].type \in {"KeyDown", "KeyUp"} /\ evs[j].scancode # "Escape"
                       /\ scancode_to_key(evs[j].scancode) = k
        Stops(j) == evs[j].type = "Quit"
                    \/ (evs[j].type = "KeyDown" /\ evs[j].scancode = "Escape")
    IN [keys |-> [k \in 0..(KEY_COUNT - 1) |->
                    IF \E j \in 1..Len(evs) : about(j, k)
                    THEN evs[CHOOSE j \in 1..Len(evs) :
                                about(j, k) /\ \A h \in 1..(j - 1) : ~about(h, k)].type
                         = "KeyDown"
                    ELSE ks[k]],
        running |-> run /\ ~\E j \in 1..Len(evs) : Stops(j)]

\* process_key_event: the pending events are applied in arrival order
RECURSIVE process_key_event(_, _, _)
process_key_event(ks, run, evs) ==
    IF evs = <<>> THEN [keys |-> ks, running |-> run]
    ELSE LET e == Head(evs)
             key == scancode_to_key(e.scancode)
         IN CASE e.type = "Quit" \/ (e.type = "KeyDown" /\ e.scancode = "Escape") ->
                     process_key_event(ks, FALSE, Tail(evs))
              [] e.type = "KeyDown" /\ e.scancode # "Escape" ->
                     process_key_event(IF key # None THEN key_down(ks, key) ELSE ks,
                                       run, Tail(evs))
              [] e.type = "KeyUp" ->
                     process_key_event(IF key # None THEN key_up(ks, key) ELSE ks,
                                       run, Tail(evs))
              [] OTHER -> process_key_event(ks, run, Tail(evs))

\* ------------------------------------------------------------------------
\* Inputs: program images, host events, random bytes
\* ------------------------------------------------------------------------
Op(k, x, y, n) == k * 4096 + x * 256 + y * 16 + n

RECURSIVE Prog(_)
Prog(ops) ==
    IF ops = <<>> THEN <<>>
    ELSE <<Head(ops) \div 256, Head(ops) % 256>> \o Prog(Tail(ops))

\* image, then zero bytes, then one final byte 255, len bytes in all
Pad(image, len) ==
    [k \in 1..len |-> IF k <= Len(image) THEN image[k] ELSE IF k = len THEN 255 ELSE 0]

\* register values used as inputs: the ends and the middle of the u8 range
ByteSamples == {0, 1, 127, 128, 129, 254, 255}

\* logical keys the host presses and releases
HostKeys == {0, 1}

Roms ==
    { Prog(<<Op(15,1,0,10), Op(1,2,0,0)>>),                   \* F10A 1200: wait for a key, again
      Prog(<<Op(2,2,0,0)>>),                                  \* 2200: call itself
      Prog(<<Op(0,0,14,14)>>),                                \* 00EE: return, nothing to return to
      Prog(<<Op(2,2,0,4), Op(1,2,0,0), Op(0,0,14,14)>>),      \* 2204 1200 00EE: call and return
      Prog(<<Op(0,0,14,0), Op(1,2,0,0)>>),                    \* 00E0 1200: clear, jump back
      Prog(<<Op(6,0,0,2), Op(15,0,1,5), Op(15,0,1,8),
             Op(15,1,0,7), Op(1,2,0,6)>>),                    \* 6002 F015 F018 F107 1206
      \* 1FFF and padding: images around the largest that fits; they jump to 0xFFF
      Pad(Prog(<<Op(1,15,15,15)>>), MEMORY_SIZE - RESERVED_MEMORY_SIZE - 1),
      Pad(Prog(<<Op(1,15,15,15)>>), MEMORY_SIZE - RESERVED_MEMORY_SIZE),
      Pad(Prog(<<Op(1,15,15,15)>>), MEMORY_SIZE - RESERVED_MEMORY_SIZE + 1),
      Pad(Prog(<<Op(1,15,15,15)>>), MEMORY_SIZE) }

HostEvents ==
    {[type |-> "Quit", scancode |-> "None"],
     [type |-> "KeyDown", scancode |-> "Escape"]}
    \cup {[type |-> t, scancode |-> key_to_scancode(k)] :
             t \in {"KeyDown", "KeyUp"}, k \in HostKeys}

\* rand::thread_rng().gen(): only CXNN draws a byte
RandomBytes(opcode) == IF kind(opcode) = 12 THEN ByteSamples ELSE {0}

\* the two builds differ only when FX1E overflows the u16 index register
WrapChoices(m, opcode) ==
    IF kind(opcode) = 15 /\ nn_field(opcode) = 30
       /\ m.i + m.registers[x_field(opcode)] > 65535
    THEN BOOLEAN ELSE {TRUE}

\* ------------------------------------------------------------------------
\* main and Machine::run
\* ------------------------------------------------------------------------
\* the state after ROM::new and Machine::new
Init ==
    /\ memory = ZeroMemory
    /\ registers = [k \in 0..(REGISTER_COUNT - 1) |-> 0]
    /\ pc = START_PC
    /\ i = 0
    /\ stack = <<>>
    /\ delay_timer = 0
    /\ sound_timer = 0
    /\ keys = [k \in 0..(KEY_COUNT - 1) |-> FALSE]
    /\ grid = clear
    /\ audio = FALSE
    /\ rom \in Roms
    /\ phase = "load_font"
    /\ running = FALSE
    /\ timer_q = 0
    /\ clock_q = 0
    /\ events = <<>>
    /\ instr = 0
    /\ last = "none"
    /\ canvas = {}
    /\ layout = default_keyboard_layout
    /\ keys_map = KeyBoard_default.keys_map
    /\ scancodes_map = KeyBoard_default.scancodes_map
    /\ fields = decode(0)

\* the loop guard letting a cycle start at the last byte of the memory
LoopPhase_last_byte(run, counter) ==
    IF run /\ counter < MEMORY_SIZE THEN "running" ELSE "exit_ok"

\* the guard of run's while loop, evaluated after a handler
LoopPhase(run, counter) ==
    IF run /\ counter < MEMORY_SIZE - 1 THEN "running" ELSE "exit_ok"

LoadFont ==
    /\ phase = "load_font"
    /\ memory' = load_font(memory)
    /\ phase' = "load_rom"
    /\ UNCHANGED <<registers, pc, i, stack, delay_timer, sound_timer, keys, grid,
                   audio, rom, running, timer_q, clock_q, events, instr, last,
                   canvas, keyboard_vars, fields>>

LoadRom ==
    /\ phase = "load_rom"
    /\ LET r == load_rom(memory, pc, rom)
       IN /\ memory' = r.memory
          /\ phase' = IF r.ok THEN "run" ELSE "load_err"
    /\ UNCHANGED <<registers, pc, i, stack, delay_timer, sound_timer, keys, grid,
                   audio, rom, running, timer_q, clock_q, events, instr, last,
                   canvas, keyboard_vars, fields>>

\* run up to the first evaluation of the loop guard
RunStart ==
    /\ phase = "run"
    /\ running' = TRUE
    /\ phase' = LoopPhase(TRUE, pc)
    /\ UNCHANGED <<memory, registers, pc, i, stack, delay_timer, sound_timer, keys, grid,
                   audio, rom, timer_q, clock_q, events, instr, last,
                   canvas, keyboard_vars, fields>>

\* the 60 Hz thread sends a notification
TimerSend ==
    /\ phase = "running"
    /\ timer_q < MaxQueue
    /\ timer_q' = timer_q + 1
    /\ UNCHANGED <<memory, registers, pc, i, stack, delay_timer, sound_timer, keys, grid,
                   audio, rom, phase, running, clock_q, events, instr, last,
                   canvas, keyboard_vars, fields>>

\* the 500 Hz thread sends a notification
ClockSend ==
    /\ phase = "running"
    /\ clock_q < MaxQueue
    /\ clock_q' = clock_q + 1
    /\ UNCHANGED <<memory, registers, pc, i, stack, delay_timer, sound_timer, keys, grid,
                   audio, rom, phase, running, timer_q, events, instr, last,
                   canvas, keyboard_vars, fields>>

\* the host queues an input event
HostEvent ==
    /\ phase = "running"
    /\ Len(events) < MaxEvents
    /\ \E e \in HostEvents : events' = Append(events, e)
    /\ UNCHANGED <<memory, registers, pc, i, stack, delay_timer, sound_timer, keys, grid,
                   audio, rom, phase, running, timer_q, clock_q, instr, last,
                   canvas, keyboard_vars, fields>>

\* a timer branch that takes every waiting notification for one tick
TimerTick_drain ==
    /\ phase = "running"
    /\ timer_q > 0
    /\ timer_q' = 0
    /\ LET t == tick_timers(delay_timer, sound_timer)
       IN /\ delay_timer' = t.delay_timer
          /\ sound_timer' = t.sound_timer
          /\ audio' = t.audio
    /\ canvas' = draw(grid)
    /\ last' = "timer"
    /\ phase' = LoopPhase(running, pc)
    /\ UNCHANGED <<memory, registers, pc, i, stack, keys, grid,
                   rom, running, clock_q, events, instr, keyboard_vars, fields>>

\* select: recv(timer_rx)
TimerTick ==
    /\ phase = "running"
    /\ timer_q > 0
    /\ timer_q' = timer_q - 1
    /\ LET t == tick_timers(delay_timer, sound_timer)
       IN /\ delay_timer' = t.delay_timer
          /\ sound_timer' = t.sound_timer
          /\ audio' = t.audio
    /\ canvas' = draw(grid)
    /\ last' = "timer"
    /\ phase' = LoopPhase(running, pc)
    /\ UNCHANGED <<memory, registers, pc, i, stack, keys, grid,
                   rom, running, clock_q, events, instr, keyboard_vars, fields>>

\* a clock branch that leaves the loop as soon as the drain has seen a quit
\* event, without the cycle of that tick
ClockTick_stop_before_cycle ==
    /\ phase = "running"
    /\ clock_q > 0
    /\ Len(stack) < MaxStack
    /\ clock_q' = clock_q - 1
    /\ \E k \in {process_key_event(keys, running, events)} :
       \E m0 \in {[Machine EXCEPT !.keys = k.keys]} :
       \E f \in {fetch(m0)} :
       \E r1 \in RandomBytes(f.instr), wrap \in WrapChoices(m0, f.instr) :
       \E m1 \in {IF k.running THEN run_cycle(m0, r1, wrap) ELSE m0} :
               /\ memory' = m1.memory
               /\ registers' = m1.registers
               /\ pc' = m1.pc
               /\ i' = m1.i
               /\ stack' = m1.stack
               /\ delay_timer' = m1.delay_timer
               /\ sound_timer' = m1.sound_timer
               /\ keys' = m1.keys
               /\ grid' = m1.grid
               /\ running' = k.running
               /\ instr' = (IF k.running THEN f.instr ELSE instr)
               /\ fields' = (IF k.running THEN decode(f.instr) ELSE fields)
               /\ phase' = IF m1.panic THEN "panicked" ELSE LoopPhase(k.running, m1.pc)
    /\ events' = <<>>
    /\ last' = "clock"
    /\ UNCHANGED <<audio, rom, timer_q, canvas, keyboard_vars>>

\* select: recv(clock_rx): process_key_event, then run_cycle
\* (each intermediate value is bound once: k, m0, f and m1 are the results of
\* process_key_event, of the latch update, of the fetch and of run_cycle)
ClockTick ==
    /\ phase = "running"
    /\ clock_q > 0
    /\ Len(stack) < MaxStack
    /\ clock_q' = clock_q - 1
    /\ \E k \in {process_key_event(keys, running, events)} :
       \E m0 \in {[Machine EXCEPT !.keys = k.keys]} :
       \E f \in {fetch(m0)} :
       \E r1 \in RandomBytes(f.instr), wrap \in WrapChoices(m0, f.instr) :
       \E m1 \in {run_cycle(m0, r1, wrap)} :
               /\ memory' = m1.memory
               /\ registers' = m1.registers
               /\ pc' = m1.pc
               /\ i' = m1.i
               /\ stack' = m1.stack
               /\ delay_timer' = m1.delay_timer
               /\ sound_timer' = m1.sound_timer
               /\ keys' = m1.keys
               /\ grid' = m1.grid
               /\ running' = k.running
               /\ instr' = f.instr
               /\ fields' = decode(f.instr)
               /\ phase' = IF m1.panic THEN "panicked" ELSE LoopPhase(k.running, m1.pc)
    /\ events' = <<>>
    /\ last' = "clock"
    /\ UNCHANGED <<audio, rom, timer_q, canvas, keyboard_vars>>

Next ==
    \/ LoadFont
    \/ LoadRom
    \/ RunStart
    \/ TimerSend
    \/ ClockSend
    \/ HostEvent
    \/ TimerTick
    \/ ClockTick

Spec == Init /\ [][Next]_vars

\* ------------------------------------------------------------------------
\* Single cycles from sampled machine states: the run loop is entered with a
\* two-instruction program (the same opcode twice), data bytes at 0x300,
\* registers, I, stack, key latch and grid drawn from samples, and as many
\* clock notifications queued as cycles are to be run.
\* ------------------------------------------------------------------------
DATA_BASE == START_PC + 256

RegPairs == {<<0, 1>>, <<0, 0>>, <<0, 15>>, <<15, 0>>, <<15, 15>>}

Base ==
    [op |-> 0, op2 |-> -1, a |-> 0, b |-> 0, c |-> 0, i |-> 0, stack |-> <<>>, down |-> {},
     events |-> <<>>, grid |-> "clear", sprite |-> <<>>, cycles |-> 1]

SpriteSamples ==
    { [k \in 1..15 |-> 255],
      [k \in 1..15 |-> IF k = 1 THEN 128 ELSE 0],
      [k \in 1..15 |-> IF k = 1 THEN 1 ELSE 0],
      [k \in 1..15 |-> IF k = 2 THEN 255 ELSE 0],
      [k \in 1..15 |-> IF k % 2 = 1 THEN 165 ELSE 60],
      [k \in 1..15 |-> 0] }

GridFull == [cx \in 0..(WIDTH - 1) |-> [cy \in 0..(HEIGHT - 1) |-> 1]]
GridStripes == [cx \in 0..(WIDTH - 1) |-> [cy \in 0..(HEIGHT - 1) |-> (cx + cy) % 2]]
GridSample(name) ==
    CASE name = "full" -> GridFull
      [] name = "stripes" -> GridStripes
      [] OTHER -> clear

AluScen ==
    {[Base EXCEPT !.op = Op(8, xy[1], xy[2], n), !.a = a, !.b = b, !.c = 2] :
        xy \in RegPairs, n \in 0..15, a \in ByteSamples, b \in ByteSamples}

DrawScen ==
    {[Base EXCEPT !.op = Op(13, xy[1], xy[2], n), !.a = a, !.b = b, !.i = DATA_BASE,
                  !.grid = g, !.sprite = sp, !.cycles = 2] :
        xy \in {<<0, 1>>, <<2, 2>>, <<15, 0>>},
        n \in {0, 1, 2, 15}, a \in {0, 57, 63, 200}, b \in {0, 31, 50},
        g \in {"clear", "full", "stripes"}, sp \in SpriteSamples}

MemScen ==
    {[Base EXCEPT !.op = Op(15, x, nn \div 16, nn % 16), !.a = a, !.i = idx,
                  !.sprite = [k \in 1..15 |-> 16 + k]] :
        x \in {0, 2, 15}, nn \in {0, 7, 21, 24, 30, 41, 51, 85, 101, 255},
        a \in ByteSamples,
        idx \in {0, DATA_BASE, 4080, 4093, 4094, 4095, 4096, 65535}}
    \cup
    {[Base EXCEPT !.op = Op(13, 0, 1, n), !.i = idx] :
        n \in {0, 1, 15}, idx \in {4081, 4082, 4095, 4096, 4097}}

KeyScen ==
    {[Base EXCEPT !.op = op, !.a = a, !.down = d, !.events = ev, !.cycles = 2] :
        op \in {Op(14,0,9,14), Op(14,0,10,1), Op(14,15,9,14), Op(14,0,0,0),
                Op(15,0,0,10), Op(15,15,0,10)},
        a \in {0, 1, 15, 16, 255},
        d \in {{}, {0}, {1}, {3, 7}, {15}, 0..15},
        ev \in {<<>>, <<[type |-> "KeyDown", scancode |-> "Num1"]>>,
                <<[type |-> "KeyUp", scancode |-> "X"]>>,
                <<[type |-> "KeyDown", scancode |-> "Space"]>>}}

FlowScen ==
    {[Base EXCEPT !.op = op, !.a = ab[1], !.b = ab[2], !.stack = st, !.grid = "stripes"] :
        op \in {Op(0,0,14,0), Op(0,0,14,14), Op(0,0,0,0), Op(0,1,2,3),
                Op(1,3,0,0), Op(1,15,15,15), Op(2,3,0,0), Op(2,15,15,14),
                Op(3,0,8,0), Op(4,0,8,0), Op(5,0,1,0), Op(5,0,1,1),
                Op(6,1,8,0), Op(7,0,8,0), Op(7,15,8,0), Op(9,0,1,0), Op(9,0,1,15),
                Op(10,3,0,0), Op(11,15,15,15), Op(11,2,0,0), Op(12,0,15,15), Op(12,1,8,1)},
        ab \in {<<v, 0>> : v \in ByteSamples} \cup {<<v, v>> : v \in ByteSamples},
        st \in {<<>>, <<DATA_BASE>>, <<START_PC + 2, DATA_BASE>>}}

\* 6XNN / 7XNN on VA, V0 and VF, with VF = 0, 1 or 200 before
ImmScen ==
    {[Base EXCEPT !.op = ops[1], !.op2 = ops[2], !.a = a, !.c = c, !.cycles = 2] :
        ops \in {<<Op(6,10,0,5), Op(7,10,0,3)>>, <<Op(7,10,14,15), Op(7,10,0,1)>>,
                 <<Op(6,0,14,15), Op(7,0,8,0)>>, <<Op(7,15,0,1), Op(6,15,0,0)>>},
        a \in ByteSamples, c \in {0, 1, 200}}

Scenarios == AluScen \cup DrawScen \cup MemScen \cup KeyScen \cup FlowScen \cup ImmScen

\* the opcode twice, or the opcode and a second one
ScenImage(sc) == Prog(<<sc.op, IF sc.op2 = -1 THEN sc.op ELSE sc.op2>>)

\* memory with a few bytes stored from address start on
RECURSIVE Poke(_, _, _)
Poke(mem, start, bytes) ==
    IF bytes = <<>> THEN mem
    ELSE Poke([mem EXCEPT ![start] = Head(bytes)], start + 1, Tail(bytes))

ScenRegisters(sc) ==
    [k \in 0..(REGISTER_COUNT - 1) |->
        IF k = x_field(sc.op) THEN sc.a
        ELSE IF k = y_field(sc.op) THEN sc.b
        ELSE IF k = 15 THEN sc.c ELSE 0]

InitCycle ==
    \E sc \in Scenarios :
        /\ rom = ScenImage(sc)
        /\ memory = Poke(Poke(FontMemory, START_PC, rom), DATA_BASE, sc.sprite)
        /\ registers = ScenRegisters(sc)
        /\ pc = START_PC
        /\ i = sc.i
        /\ stack = sc.stack
        /\ delay_timer = 0
        /\ sound_timer = 0
        /\ keys = [k \in 0..(KEY_COUNT - 1) |-> k \in sc.down]
        /\ grid = GridSample(sc.grid)
        /\ audio = FALSE
        /\ phase = "running"
        /\ running = TRUE
        /\ timer_q = 0
        /\ clock_q = sc.cycles
        /\ events = sc.events
        /\ instr = 0
        /\ last = "none"
        /\ canvas = {}
        /\ layout = default_keyboard_layout
        /\ keys_map = KeyBoard_default.keys_map
        /\ scancodes_map = KeyBoard_default.scancodes_map
        /\ fields = decode(0)

NextCycle == ClockTick

SpecCycle == InitCycle /\ [][NextCycle]_vars

\* ------------------------------------------------------------------------
\* The select loop alone: run has been entered with a program loaded, the two
\* threads may already have sent notifications before the first select, and
\* select serves each channel that stays ready (it picks at random among the
\* ready channels).
\* ------------------------------------------------------------------------
RomsLoop ==
    { \* A050 D015 6202 F215 F10A 1208: draw the glyph 0, delay_timer = 2, wait for keys
      Prog(<<Op(10,0,5,0), Op(13,0,1,5), Op(6,2,0,2), Op(15,2,1,5),
             Op(15,1,0,10), Op(1,2,0,8)>>),
      \* 2204 1200 2208 00EE 00EE: a call inside a call, both return
      Prog(<<Op(2,2,0,4), Op(1,2,0,0), Op(2,2,0,8), Op(0,0,14,14), Op(0,0,14,14)>>) }

\* the machine and the channels when run reaches its loop
LoopEntry ==
    /\ rom \in RomsLoop
    /\ memory = load_rom(FontMemory, START_PC, rom).memory
    /\ registers = [k \in 0..(REGISTER_COUNT - 1) |-> 0]
    /\ pc = START_PC
    /\ i = 0
    /\ stack = <<>>
    /\ delay_timer = 0
    /\ sound_timer = 0
    /\ keys = [k \in 0..(KEY_COUNT - 1) |-> FALSE]
    /\ grid = clear
    /\ audio = FALSE
    /\ phase = "running"
    /\ running = TRUE
    /\ timer_q \in 0..(MaxQueue + 1)
    /\ clock_q \in 0..(MaxQueue + 1)
    /\ instr = 0
    /\ last = "none"
    /\ canvas = {}
    /\ layout = default_keyboard_layout
    /\ keys_map = KeyBoard_default.keys_map
    /\ scancodes_map = KeyBoard_default.scancodes_map
    /\ fields = decode(0)

InitLoop == LoopEntry /\ events = <<>>

NextLoop ==
    \/ TimerSend
    \/ ClockSend
    \/ HostEvent
    \/ TimerTick
    \/ ClockTick

SpecLoop == InitLoop /\ [][NextLoop]_vars

\* The two tick sources and the loop, the host sending nothing after the loop
\* has started: the events of the first drain are already in the event pump.
\* select picks at random among the ready channels, so a channel that stays
\* ready is served: weak fairness of each branch.
StartEvents ==
    { <<>>,
      <<[type |-> "KeyDown", scancode |-> "Num1"]>>,
      <<[type |-> "KeyDown", scancode |-> "Num1"], [type |-> "KeyUp", scancode |-> "Num1"]>>,
      <<[type |-> "Quit", scancode |-> "None"]>> }

InitTicks == LoopEntry /\ events \in StartEvents

NextTicks ==
    \/ TimerSend
    \/ ClockSend
    \/ TimerTick
    \/ ClockTick

SpecTicks == InitTicks /\ [][NextTicks]_vars /\ WF_vars(TimerTick) /\ WF_vars(ClockTick)

\* The loop on a program that reads the key latch, with events already in the
\* event pump when the loop starts (several of them for one drain) and the
\* host sending more.
\* E09E 1204 E0A1 1208 F30A 1200: skip if key V0 is down, skip if it is not,
\* wait for a key
RomsKeys ==
    { Prog(<<Op(14,0,9,14), Op(1,2,0,4), Op(14,0,10,1), Op(1,2,0,8),
             Op(15,3,0,10), Op(1,2,0,0)>>) }

KeyEvent(type, scancode) == [type |-> type, scancode |-> scancode]

PendingEvents ==
    { <<>>,
      <<KeyEvent("KeyDown", "X")>>,
      <<KeyEvent("KeyDown", "X"), KeyEvent("KeyUp", "X")>>,
      <<KeyEvent("KeyUp", "X"), KeyEvent("KeyDown", "X")>>,
      <<KeyEvent("KeyDown", "X"), KeyEvent("KeyDown", "Num1")>>,
      <<KeyEvent("KeyDown", "Num1"), KeyEvent("KeyUp", "Num1")>>,
      <<KeyEvent("KeyDown", "X"), KeyEvent("Quit", "None")>>,
      <<KeyEvent("Quit", "None"), KeyEvent("KeyDown", "X")>>,
      <<KeyEvent("KeyDown", "Escape"), KeyEvent("KeyDown", "Num1")>>,
      <<KeyEvent("KeyDown", "Space")>> }

InitKeys ==
    /\ rom \in RomsKeys
    /\ memory = load_rom(FontMemory, START_PC, rom).memory
    /\ registers = [k \in 0..(REGISTER_COUNT - 1) |-> 0]
    /\ pc = START_PC
    /\ i = 0
    /\ stack = <<>>
    /\ delay_timer = 0
    /\ sound_timer = 0
    /\ keys = [k \in 0..(KEY_COUNT - 1) |-> FALSE]
    /\ grid = clear
    /\ audio = FALSE
    /\ phase = "running"
    /\ running = TRUE
    /\ timer_q \in 0..MaxQueue
    /\ clock_q \in 0..(MaxQueue + 1)
    /\ events \in PendingEvents
    /\ instr = 0
    /\ last = "none"
    /\ canvas = {}
    /\ layout = default_keyboard_layout
    /\ keys_map = KeyBoard_default.keys_map
    /\ scancodes_map = KeyBoard_default.scancodes_map
    /\ fields = decode(0)

NextKeys ==
    \/ TimerSend
    \/ ClockSend
    \/ HostEvent
    \/ TimerTick
    \/ ClockTick

SpecKeys == InitKeys /\ [][NextKeys]_vars

\* The loop on programs that leave the memory: PC runs off the end, jumps to
\* 0xFFF, is set past the end by BNNN, by a return, by a skip.
\* an image that fills the memory from 0x200 on: head, zero bytes, tail
FullImage(head, tail) ==
    LET len == MEMORY_SIZE - RESERVED_MEMORY_SIZE IN
    [k \in 1..len |-> IF k <= Len(head) THEN head[k]
                      ELSE IF k > len - Len(tail) THEN tail[k - (len - Len(tail))]
                      ELSE 0]

RomsEnd ==
    { \* 1FFA, and 0000 0000 00FF at 0xFFA: three instructions, then off the end
      FullImage(Prog(<<Op(1,15,15,10)>>), <<0, 255>>),
      \* 1FFF: jump to the last byte
      Prog(<<Op(1,15,15,15)>>),
      \* 60FF BF00: PC = 0xF00 + 255;  BFFF: PC = 0xFFF + 0
      Prog(<<Op(6,0,15,15), Op(11,15,0,0)>>),
      Prog(<<Op(11,15,15,15)>>),
      \* 1FFE 00EE, and 2202 at 0xFFE: the call pushes 0x1000, the return pops it
      FullImage(Prog(<<Op(1,15,15,14), Op(0,0,14,14)>>), Prog(<<Op(2,2,0,2)>>)),
      \* 1FFE, and 3000 at 0xFFE: the skip taken, PC = 0x1002
      FullImage(Prog(<<Op(1,15,15,14)>>), Prog(<<Op(3,0,0,0)>>)) }

InitEnd ==
    /\ rom \in RomsEnd
    /\ memory = load_rom(FontMemory, START_PC, rom).memory
    /\ registers = [k \in 0..(REGISTER_COUNT - 1) |-> 0]
    /\ pc = START_PC
    /\ i = 0
    /\ stack = <<>>
    /\ delay_timer = 0
    /\ sound_timer = 0
    /\ keys = [k \in 0..(KEY_COUNT - 1) |-> FALSE]
    /\ grid = clear
    /\ audio = FALSE
    /\ phase = "running"
    /\ running = TRUE
    /\ timer_q \in 0..(MaxQueue + 1)
    /\ clock_q \in 0..(MaxQueue + 1)
    /\ events = <<>>
    /\ instr = 0
    /\ last = "none"
    /\ canvas = {}
    /\ layout = default_keyboard_layout
    /\ keys_map = KeyBoard_default.keys_map
    /\ scancodes_map = KeyBoard_default.scancodes_map
    /\ fields = decode(0)

NextEnd ==
    \/ TimerSend
    \/ ClockSend
    \/ TimerTick
    \/ ClockTick

SpecEnd == InitEnd /\ [][NextEnd]_vars

\* ------------------------------------------------------------------------
\* The decoder alone: the machine has just been built, the image is any two
\* bytes, and one step builds the Instruction from them and decodes it.
\* ------------------------------------------------------------------------
InitDecode ==
    /\ rom \in {<<high, low>> : high \in 0..255, low \in 0..255}
    /\ memory = ZeroMemory
    /\ registers = [k \in 0..(REGISTER_COUNT - 1) |-> 0]
    /\ pc = START_PC
    /\ i = 0
    /\ stack = <<>>
    /\ delay_timer = 0
    /\ sound_timer = 0
    /\ keys = [k \in 0..(KEY_COUNT - 1) |-> FALSE]
    /\ grid = clear
    /\ audio = FALSE
    /\ phase = "decode"
    /\ running = FALSE
    /\ timer_q = 0
    /\ clock_q = 0
    /\ events = <<>>
    /\ instr = 0
    /\ last = "none"
    /\ canvas = {}
    /\ layout = default_keyboard_layout
    /\ keys_map = KeyBoard_default.keys_map
    /\ scancodes_map = KeyBoard_default.scancodes_map
    /\ fields = decode(0)

\* Instruction::new on the two bytes, then Instruction::decode
Decode ==
    /\ phase = "decode"
    /\ instr' = Instruction_new(rom[1], rom[2])
    /\ fields' = decode(instr')
    /\ phase' = "decoded"
    /\ UNCHANGED <<machine_vars, audio, rom, running, timer_q, clock_q, events, last,
                   canvas, keyboard_vars>>

NextDecode == Decode

SpecDecode == InitDecode /\ [][NextDecode]_vars

\* ------------------------------------------------------------------------
\* Construction of the key mapping (keyboard.rs)
\* ------------------------------------------------------------------------
\* KeyBoard::key_to_scancode / scancode_to_key on the maps of an instance
KeyBoard_key_to_scancode(km, key) == IF key \in DOMAIN km THEN km[key] ELSE "None"
KeyBoard_scancode_to_key(sm, scancode) == IF scancode \in DOMAIN sm THEN sm[scancode] ELSE None

\* keys a HashMap<u8, Scancode> can hold beside 0x0..0xF (two of the 240)
OtherKeys == {16, 255}
\* a host scancode the default layout does not use
OtherScancodes == {"P"}

\* the layouts handed to KeyBoard::new: the default one, and the default
\* one with a key missing, a key replaced by a key above 0xF, the scancode
\* of a key given to a second key, a key bound to another scancode, a 17th
\* entry, and the empty layout
Layouts ==
    LET D == default_keyboard_layout
        K == DOMAIN D
    IN {D, [k \in {} |-> "None"]}
       \cup {[q \in K \ {k} |-> D[q]] : k \in K}
       \cup {[q \in (K \ {k}) \cup {j} |-> IF q = j THEN D[k] ELSE D[q]] :
                k \in K, j \in OtherKeys}
       \cup {[q \in K |-> IF q = k THEN D[j] ELSE D[q]] : k \in K, j \in K}
       \cup {[q \in K |-> IF q = k THEN sc ELSE D[q]] : k \in K, sc \in OtherScancodes}
       \cup {[q \in K \cup {j} |-> IF q = j THEN sc ELSE D[q]] :
                j \in OtherKeys, sc \in OtherScancodes}

InitKeyMap ==
    /\ rom = <<>>
    /\ memory = ZeroMemory
    /\ registers = [r \in 0..(REGISTER_COUNT - 1) |-> 0]
    /\ i = 0
    /\ pc = START_PC
    /\ stack = <<>>
    /\ delay_timer = 0
    /\ sound_timer = 0
    /\ keys = [k \in 0..(KEY_COUNT - 1) |-> FALSE]
    /\ grid = clear
    /\ audio = FALSE
    /\ phase = "layout"
    /\ running = FALSE
    /\ timer_q = 0
    /\ clock_q = 0
    /\ events = <<>>
    /\ instr = 0
    /\ last = "none"
    /\ canvas = {}
    /\ layout \in Layouts
    /\ keys_map = [k \in {} |-> "None"]
    /\ scancodes_map = [sc \in {} |-> None]
    /\ fields = decode(0)

\* KeyBoard::new(&layout): Ok with the two maps, or Err
NewKeyBoard ==
    /\ phase = "layout"
    /\ \E kb \in {KeyBoard_new(layout)} :
        IF kb.ok
        THEN /\ keys_map' = kb.keys_map
             /\ scancodes_map' = kb.scancodes_map
             /\ keys' = [k \in 0..(KEY_COUNT - 1) |-> FALSE]
             /\ phase' = "keyboard"
        ELSE /\ phase' = "layout_err"
             /\ UNCHANGED <<keys_map, scancodes_map, keys>>
    /\ UNCHANGED <<memory, registers, i, pc, stack, delay_timer, sound_timer, grid,
                   audio, rom, running, timer_q, clock_q, events, instr, last,
                   canvas, layout, fields>>

NextKeyMap == NewKeyBoard

SpecKeyMap == InitKeyMap /\ [][NextKeyMap]_vars

\* ------------------------------------------------------------------------
\* Steps, as seen from a pair of states
\* ------------------------------------------------------------------------
\* the opcode the next cycle fetches
Fetched == Instruction_new(memory[pc], memory[pc + 1])

\* a step of the clock branch / of the timer branch of the select
CycleStep == phase = "running" /\ clock_q' = clock_q - 1
TimerStep == phase = "running" /\ timer_q' = timer_q - 1

\* a cycle that executes an opcode of family k with low nibble n / low byte nn
CycleN(k, n) == CycleStep /\ kind(Fetched) = k /\ n_field(Fetched) = n
CycleNN(k, nn) == CycleStep /\ kind(Fetched) = k /\ nn_field(Fetched) = nn

\* the key latch at the moment the instruction of this cycle executes
LatchAtCycle == process_key_event(keys, running, events).keys

Max(a, b) == IF a > b THEN a ELSE b

\* ------------------------------------------------------------------------
\* C1: 8XY4 leaves VF = 1 if Vx + Vy > 255 and 0 otherwise, for every x and y
\* (x = F and y = F included), and Vx = (Vx + Vy) mod 256 for x other than F.
\* ------------------------------------------------------------------------
C1_AddCarry ==
    [][CycleN(8, 4) =>
        LET x == x_field(Fetched)
            a == registers[x]
            b == registers[y_field(Fetched)]
        IN /\ registers'[15] = (IF a + b > 255 THEN 1 ELSE 0)
           /\ (x # 15 => registers'[x] = (a + b) % 256)]_vars

\* ------------------------------------------------------------------------
\* C2: 8XY5 leaves VF = 1 iff Vx >= Vy and Vx = (Vx - Vy) mod 256; 8XY7 leaves
\* VF = 1 iff Vy >= Vx and Vx = (Vy - Vx) mod 256; for every x and y, F included.
\* ------------------------------------------------------------------------
C2_SubNoBorrow ==
    [][(CycleN(8, 5) \/ CycleN(8, 7)) =>
        LET x == x_field(Fetched)
            a == registers[x]
            b == registers[y_field(Fetched)]
            minuend == IF n_field(Fetched) = 5 THEN a ELSE b
            subtrahend == IF n_field(Fetched) = 5 THEN b ELSE a
        IN /\ registers'[15] = (IF minuend >= subtrahend THEN 1 ELSE 0)
           /\ (x # 15 => registers'[x] = (minuend - subtrahend + 256) % 256)]_vars

\* ------------------------------------------------------------------------
\* C3: 8XY6 and 8XYE leave in VF the bit shifted out of Vx (Vx mod 2, resp.
\* Vx div 128), for every x (F included), and shift Vx for x other than F.
\* ------------------------------------------------------------------------
C3_ShiftedOutBit ==
    [][(CycleN(8, 6) \/ CycleN(8, 14)) =>
        LET x == x_field(Fetched)
            v == registers[x]
            right == n_field(Fetched) = 6
        IN /\ registers'[15] = (IF right THEN v % 2 ELSE v \div 128)
           /\ (x # 15 => registers'[x] = (IF right THEN v \div 2 ELSE (2 * v) % 256))]_vars

\* ------------------------------------------------------------------------
\* C4: drawing the same sprite twice at the same place
\* ------------------------------------------------------------------------
\* the arguments DXYN passes to flip in the current state
DrawX == registers[x_field(Fetched)] % 64
DrawY == registers[y_field(Fetched)] % 32
DrawN == n_field(Fetched)
DrawData == [r \in 1..DrawN |-> memory[i + r - 1]]

\* a DXYN cycle whose sprite has a row byte that is not zero
DrawsSprite ==
    /\ CycleStep
    /\ kind(Fetched) = 13
    /\ i + DrawN <= MEMORY_SIZE
    /\ \E r \in 1..DrawN : DrawData[r] # 0

\* some set bit of the sprite falls on a pixel of the grid that is off
SpriteLightsPixel ==
    \E r \in 0..(DrawN - 1), c \in 0..7 :
        /\ DrawY + r < HEIGHT
        /\ DrawX + c < WIDTH
        /\ Bit(DrawData[r + 1], 7 - c) = 1
        /\ grid[DrawX + c][DrawY + r] = 0

\* C4 as claimed: for every sprite that is not all zero, a second draw with the
\* same arguments restores the grid and returns collision = 1.
C4_DrawTwice ==
    [][DrawsSprite =>
        LET second == flip(grid', DrawX, DrawY, DrawN, DrawData)
        IN second.grid = grid /\ second.flag = 1]_vars

\* C4 amended: a second draw with the same arguments restores the grid, and it
\* returns collision = 1 exactly when the first draw turned a pixel on, that is
\* when a set bit of the sprite fell on a grid pixel that was off (it returns 0
\* when every set bit was clipped at an edge or fell on a pixel that was on).
C4_DrawTwiceRestores ==
    [][DrawsSprite =>
        LET second == flip(grid', DrawX, DrawY, DrawN, DrawData)
        IN /\ second.grid = grid
           /\ second.flag = (IF SpriteLightsPixel THEN 1 ELSE 0)]_vars

\* two DXYN cycles with the same registers have run: the second one collided
\* and the striped grid is back
C4_Witness ==
    /\ kind(instr) = 13
    /\ x_field(instr) # 15
    /\ y_field(instr) # 15
    /\ pc = START_PC + 4
    /\ clock_q = 0
    /\ registers[15] = 1
    /\ grid = GridStripes

\* ------------------------------------------------------------------------
\* C5: FX0A with no key latched leaves PC at the instruction and changes no
\* register; with a key latched it stores a latched key in Vx, clears that
\* key's latch only, and leaves PC behind the instruction.
\* ------------------------------------------------------------------------
C5_WaitForKey ==
    [][CycleNN(15, 10) =>
        LET x == x_field(Fetched)
            latch == LatchAtCycle
        IN IF \A k \in 0..(KEY_COUNT - 1) : ~latch[k]
           THEN /\ pc' = pc
                /\ registers' = registers
                /\ memory' = memory
                /\ keys' = latch
           ELSE /\ pc' = pc + 2
                /\ \E k \in 0..(KEY_COUNT - 1) :
                      /\ latch[k]
                      /\ registers'[x] = k
                      /\ ~keys'[k]
                      /\ \A j \in 0..(KEY_COUNT - 1) : j # k => keys'[j] = latch[j]
                /\ \A r \in 0..(REGISTER_COUNT - 1) : r # x => registers'[r] = registers[r]]_vars

\* F10A has taken key 1 into V1 and cleared its latch
C5_Witness ==
    /\ instr = Op(15, 1, 0, 10)
    /\ pc = START_PC + 2
    /\ registers[1] = 1
    /\ ~keys[1]
    /\ last = "clock"

\* ------------------------------------------------------------------------
\* C6: the call stack never holds more than 16 return addresses.
\* ------------------------------------------------------------------------
C6_StackDepth == Len(stack) <= STACK_SIZE

\* ------------------------------------------------------------------------
\* C7: a cycle aborts only on 00EE with an empty call stack.
\* ------------------------------------------------------------------------
C7_OnlyUnderflowAborts == phase = "panicked" => (instr = Op(0, 0, 14, 14) /\ stack = <<>>)

\* ------------------------------------------------------------------------
\* C8: 00EE with an empty call stack stops the engine: the cycle ends in the
\* panicked position, which is not the Ok exit, and nothing runs after it.
\* ------------------------------------------------------------------------
C8_UnderflowStops ==
    [][/\ (CycleStep /\ Fetched = Op(0, 0, 14, 14) /\ stack = <<>>) => phase' = "panicked"
       /\ phase = "panicked" => vars' = vars]_vars

C8_Witness ==
    /\ phase = "panicked"
    /\ instr = Op(0, 0, 14, 14)
    /\ stack = <<>>
    /\ rom = Prog(<<Op(0, 0, 14, 14)>>)

\* ------------------------------------------------------------------------
\* C9: load_rom succeeds for images of at most 3584 bytes, which are then in
\* memory from 0x200 on, and fails for longer ones without touching memory;
\* after a failed load nothing runs.
\* ------------------------------------------------------------------------
C9_LoadRom ==
    [][/\ phase = "load_rom" =>
            IF Len(rom) <= 3584
            THEN /\ phase' = "run"
                 /\ \A k \in 1..Len(rom) : memory'[512 + k - 1] = rom[k]
            ELSE /\ phase' = "load_err"
                 /\ memory' = memory
       /\ phase = "load_err" => vars' = vars]_vars

\* an image of exactly 3584 bytes is loaded, its last byte at 0xFFF
C9_Witness ==
    /\ Len(rom) = 3584
    /\ phase = "running"
    /\ memory[4095] = 255

\* ------------------------------------------------------------------------
\* C10: a timer tick lowers each timer by one, stopping at 0; a cycle changes
\* delay_timer only by FX15 and sound_timer only by FX18 (to Vx), and FX07
\* reads delay_timer; nothing else changes the timers.
\* ------------------------------------------------------------------------
C10_TimerFloor ==
    [][/\ TimerStep => /\ delay_timer' = Max(delay_timer - 1, 0)
                       /\ sound_timer' = Max(sound_timer - 1, 0)
       /\ CycleStep =>
            /\ delay_timer' = (IF kind(Fetched) = 15 /\ nn_field(Fetched) = 21
                               THEN registers[x_field(Fetched)] ELSE delay_timer)
            /\ sound_timer' = (IF kind(Fetched) = 15 /\ nn_field(Fetched) = 24
                               THEN registers[x_field(Fetched)] ELSE sound_timer)
       /\ CycleNN(15, 7) => registers'[x_field(Fetched)] = delay_timer
       /\ (~TimerStep /\ ~CycleStep) => UNCHANGED <<delay_timer, sound_timer>>]_vars

\* F015 stored 2, at least two ticks later F107 read 0, and a further tick left 0
C10_Witness ==
    /\ instr = Op(15, 1, 0, 7)
    /\ registers[0] = 2
    /\ registers[1] = 0
    /\ delay_timer = 0
    /\ sound_timer = 0
    /\ last = "timer"

\* ------------------------------------------------------------------------
\* C11: audio follows the sound timer: after every serviced timer tick the
\* audio device is playing only if sound_timer > 0 (the tick on which
\* sound_timer reaches 0 stops it).
\* ------------------------------------------------------------------------
C11_AudioFollowsSoundTimer ==
    [][TimerStep => (audio' => sound_timer' > 0)]_vars

\* ------------------------------------------------------------------------
\* C12: no tick is skipped or coalesced.  Each notification taken from the
\* clock channel runs exactly one instruction cycle and each one taken from
\* the timer channel runs one timer decrement and one display flush; a send
\* only lengthens its queue by one; nothing runs without a notification; and
\* with both channels served fairly no notification waits for ever while the
\* loop runs: each channel is served again and again, or from some point on
\* its queue is empty or the loop has ended.
\* ------------------------------------------------------------------------
\* the points of the grid that are lit
LitPixels == {p \in (0..(WIDTH - 1)) \X (0..(HEIGHT - 1)) : grid[p[1]][p[2]] = 1}

\* opcodes after which execution continues with the next instruction
Sequential(opcode) ==
    \/ kind(opcode) \in {6, 7, 8, 10, 12, 13}
    \/ kind(opcode) = 15 /\ nn_field(opcode) # 10

\* what one instruction cycle shows: the opcode at PC was fetched, the host
\* events were drained, PC moved as one instruction moves it, and no timer
\* was decremented and no frame presented
OneCycle ==
    /\ instr' = Fetched
    /\ events' = <<>>
    /\ last' = "clock"
    /\ (Sequential(Fetched) /\ phase' # "panicked") => pc' = pc + 2
    /\ kind(Fetched) = 1 => pc' = nnn_field(Fetched)
    /\ kind(Fetched) = 2 => pc' = nnn_field(Fetched) /\ Len(stack') = Len(stack) + 1
    /\ kind(Fetched) # 15 => UNCHANGED <<delay_timer, sound_timer>>
    /\ UNCHANGED <<timer_q, canvas, audio>>

\* what one timer tick shows: one decrement of each running timer, one frame
OneTimerTick ==
    /\ delay_timer' = Max(delay_timer - 1, 0)
    /\ sound_timer' = Max(sound_timer - 1, 0)
    /\ canvas' = LitPixels
    /\ last' = "timer"
    /\ UNCHANGED <<memory, registers, pc, i, stack, keys, grid, clock_q, events, instr>>

Waiting == phase = "running" /\ kind(Fetched) = 15 /\ nn_field(Fetched) = 10

\* the last event for logical key k in the event pump is a key-down / a key-up
LastEventOf(k, type) ==
    \E idx \in 1..Len(events) :
        /\ events[idx] = [type |-> type, scancode |-> default_keyboard_layout[k]]
        /\ \A j \in (idx + 1)..Len(events) :
              events[j].scancode # default_keyboard_layout[k]

ClearAndLoop == Prog(<<Op(0, 0, 14, 0), Op(1, 2, 0, 0)>>)

\* the event pump holds a quit event (window close, or Escape pressed)
QuitPending ==
    \E idx \in 1..Len(events) :
        \/ events[idx].type = "Quit"
        \/ events[idx].type = "KeyDown" /\ events[idx].scancode = "Escape"

C14_ClearLoopForever ==
    /\ [](rom = ClearAndLoop =>
            /\ grid = clear
            /\ pc \in {START_PC, START_PC + 2}
            /\ stack = <<>>
            /\ phase # "panicked"
            /\ phase # "load_err")
    /\ [][(rom = ClearAndLoop /\ phase = "running" /\ phase' # "running") =>
            (CycleStep /\ QuitPending /\ phase' = "exit_ok")]_vars

\* 00E0 and 1200 have run, a timer tick has been served, and the loop goes on
C14_Witness ==
    /\ rom = ClearAndLoop
    /\ phase = "running"
    /\ instr = Op(1, 2, 0, 0)
    /\ pc = START_PC
    /\ grid = clear
    /\ last = "timer"

\* ------------------------------------------------------------------------
\* C15: the decoder is total and exact.  For every pair of bytes high, low,
\* Instruction::new yields w = high * 256 + low, and decode yields
\* kind = w div 4096, x = (w div 256) mod 16, y = (w div 16) mod 16,
\* n = w mod 16, nn = w mod 256, nnn = w mod 4096, so that
\* w = kind * 4096 + nnn, nnn = x * 256 + nn and nn = y * 16 + n; the step
\* always ends decoded and changes nothing of the machine.
\* ------------------------------------------------------------------------
C15_DecoderExact ==
    /\ [](phase = "decoded" =>
            LET w == rom[1] * 256 + rom[2]
            IN /\ instr = w
               /\ fields.kind = w \div 4096
               /\ fields.x = (w \div 256) % 16
               /\ fields.y = (w \div 16) % 16
               /\ fields.n = w % 16
               /\ fields.nn = w % 256
               /\ fields.nnn = w % 4096
               /\ w = fields.kind * 4096 + fields.nnn
               /\ fields.nnn = fields.x * 256 + fields.nn
               /\ fields.nn = fields.y * 16 + fields.n)
    /\ [][phase = "decode" => (phase' = "decoded" /\ UNCHANGED machine_vars)]_vars

\* 0xABCD has been decoded
C15_Witness ==
    /\ phase = "decoded"
    /\ rom = <<171, 205>>
    /\ instr = 43981
    /\ fields = [kind |-> 10, x |-> 11, y |-> 12, n |-> 13, nn |-> 205, nnn |-> 3021]

\* ------------------------------------------------------------------------
\* C16: KeyBoard::new refuses every layout whose number of entries is not
\* 16, and every layout it accepts is a bijection between 16 logical keys
\* and 16 distinct scancodes: scancode_to_key(key_to_scancode(k)) = k for
\* every mapped key k, and every logical key 0x0..0xF is mapped.
\* ------------------------------------------------------------------------
C16_KeyMapBijection ==
    /\ (phase \in {"keyboard", "layout_err"} /\ Cardinality(DOMAIN layout) # 16)
            => phase = "layout_err"
    /\ phase = "keyboard" =>
        /\ Cardinality(DOMAIN keys_map) = 16
        /\ Cardinality(DOMAIN scancodes_map) = 16
        /\ \A k \in DOMAIN keys_map :
              KeyBoard_scancode_to_key(scancodes_map,
                                       KeyBoard_key_to_scancode(keys_map, k)) = k
        /\ \A k \in 0..15 : KeyBoard_key_to_scancode(keys_map, k) # "None"


\* ------------------------------------------------------------------------
\* C17: an opcode that is not one of the defined patterns (0NNN other than
\* 00E0 / 00EE, 5XYN and 9XYN with N # 0, 8XYN with N in {8,9,A,B,C,D,F},
\* EXNN with NN not in {9E, A1}, FXNN with NN not in {07,0A,15,18,1E,29,33,
\* 55,65}) is a no-op: the cycle sets PC to PC + 2 and leaves registers, I,
\* stack, timers, memory, display and key latch as they were.
\* ------------------------------------------------------------------------
Unrecognized(opcode) ==
    \/ kind(opcode) = 0 /\ opcode \notin {Op(0, 0, 14, 0), Op(0, 0, 14, 14)}
    \/ kind(opcode) \in {5, 9} /\ n_field(opcode) # 0
    \/ kind(opcode) = 8 /\ n_field(opcode) \in {8, 9, 10, 11, 12, 13, 15}
    \/ kind(opcode) = 14 /\ nn_field(opcode) \notin {158, 161}
    \/ kind(opcode) = 15 /\ nn_field(opcode) \notin {7, 10, 21, 24, 30, 41, 51, 85, 101}

C17_UnrecognizedNoOp ==
    [][(CycleStep /\ Unrecognized(Fetched)) =>
            /\ phase' # "panicked"
            /\ pc' = pc + 2
            /\ keys' = LatchAtCycle
            /\ UNCHANGED <<registers, i, stack, delay_timer, sound_timer, memory, grid>>]_vars

\* ------------------------------------------------------------------------
\* C18: 2NNN fetched at address a pushes a + 2 and sets PC = NNN; 1NNN sets
\* PC = NNN; 00EE pops the address pushed last into PC.  A return right
\* after a call resumes at a + 2 with the stack as it was before the call,
\* and in the program with a call inside a call (2204 1200 2208 00EE 00EE)
\* each return resumes after its own call with the stack of that call.
\* ------------------------------------------------------------------------
RET == Op(0, 0, 14, 14)

NestedCalls == Prog(<<Op(2,2,0,4), Op(1,2,0,0), Op(2,2,0,8), RET, RET>>)

C18_CallReturnLifo ==
    /\ [][/\ (CycleStep /\ kind(Fetched) = 2) =>
                /\ stack' = Append(stack, pc + 2)
                /\ pc' = nnn_field(Fetched)
                /\ op_0(Machine', RET).pc = pc + 2
                /\ op_0(Machine', RET).stack = stack
          /\ (CycleStep /\ kind(Fetched) = 1) =>
                /\ pc' = nnn_field(Fetched)
                /\ stack' = stack
          /\ (CycleStep /\ Fetched = RET /\ stack # <<>>) =>
                /\ pc' = stack[Len(stack)]
                /\ stack' = SubSeq(stack, 1, Len(stack) - 1)]_vars
    /\ [](rom = NestedCalls /\ phase = "running" =>
            stack = CASE pc = START_PC -> <<>>
                      [] pc = START_PC + 2 -> <<>>
                      [] pc = START_PC + 4 -> <<START_PC + 2>>
                      [] pc = START_PC + 6 -> <<START_PC + 2>>
                      [] pc = START_PC + 8 -> <<START_PC + 2, START_PC + 6>>
                      [] OTHER -> <<-1>>)

\* the outer call has returned: execution is at a + 2 with the empty stack
C18_Witness ==
    /\ rom = NestedCalls
    /\ instr = RET
    /\ pc = START_PC + 2
    /\ stack = <<>>
    /\ phase = "running"

\* ------------------------------------------------------------------------
\* C19: DXYN, with x0 = Vx mod 64 and y0 = Vy mod 32: for every row r < N
\* with y0 + r < 32 and column c < 8 with x0 + c < 64, pixel (x0 + c, y0 + r)
\* is XORed with bit (7 - c) of memory[I + r]; rows past the bottom edge and
\* columns past the right edge are dropped, not wrapped; every other pixel
\* is unchanged; VF is 1 if a pixel went from 1 to 0 and 0 otherwise, also
\* for N = 0.  Stated for every draw whose visible rows have their bytes
\* inside the memory.
\* ------------------------------------------------------------------------
\* the grid after the XOR of n rows at (x0, y0), and whether a pixel goes out
DrawnGrid(x0, y0, n) ==
    [cx \in 0..(WIDTH - 1) |-> [cy \in 0..(HEIGHT - 1) |->
        IF cx >= x0 /\ cx < x0 + 8 /\ cy >= y0 /\ cy < y0 + n
        THEN (grid[cx][cy] + Bit(memory[i + (cy - y0)], 7 - (cx - x0))) % 2
        ELSE grid[cx][cy]]]

DrawCollides(x0, y0, n) ==
    \E cx \in x0..(x0 + 7), cy \in y0..(y0 + n - 1) :
        /\ cx < WIDTH
        /\ cy < HEIGHT
        /\ grid[cx][cy] = 1
        /\ Bit(memory[i + (cy - y0)], 7 - (cx - x0)) = 1

\* every row of the sprite that is on the display has its byte in the memory
SpriteInMemory(y0, n) == \A r \in 0..(n - 1) : y0 + r < HEIGHT => i + r < MEMORY_SIZE

C19_DrawSprite ==
    [][(CycleStep /\ kind(Fetched) = 13) =>
        \A x0 \in {registers[x_field(Fetched)] % 64},
           y0 \in {registers[y_field(Fetched)] % 32},
           n \in {n_field(Fetched)} :
            SpriteInMemory(y0, n) =>
                /\ phase' # "panicked"
                /\ grid' = DrawnGrid(x0, y0, n)
                /\ registers'[15] = (IF DrawCollides(x0, y0, n) THEN 1 ELSE 0)]_vars

\* ------------------------------------------------------------------------
\* C20: FX55 sets memory[I + k] = Vk for every k in 0..x and changes no
\* other memory byte, no register and not I; FX65 sets Vk = memory[I + k]
\* for every k in 0..x and changes no register above x, no memory byte and
\* not I; so FX65 after FX55 with the same x and I leaves the registers as
\* they were.
\* ------------------------------------------------------------------------
C20_DumpLoad ==
    [][/\ CycleNN(15, 85) =>
            \A x \in {x_field(Fetched)} :
                /\ phase' # "panicked"
                /\ \A k \in 0..x : i + k < MEMORY_SIZE => memory'[i + k] = registers[k]
                /\ \A a \in 0..(MEMORY_SIZE - 1) :
                        (a < i \/ a > i + x) => memory'[a] = memory[a]
                /\ registers' = registers
                /\ i' = i
                /\ op_F65(Machine', x).registers = registers
       /\ CycleNN(15, 101) =>
            \A x \in {x_field(Fetched)} :
                /\ phase' # "panicked"
                /\ \A k \in 0..x : i + k < MEMORY_SIZE => registers'[k] = memory[i + k]
                /\ \A k \in (x + 1)..(REGISTER_COUNT - 1) : registers'[k] = registers[k]
                /\ memory' = memory
                /\ i' = i]_vars

\* ------------------------------------------------------------------------
\* C21: FX33, for every value v = Vx: after the cycle memory[I] = v div 100,
\* memory[I + 1] = (v div 10) mod 10, memory[I + 2] = v mod 10, so that
\* 100 * memory[I] + 10 * memory[I + 1] + memory[I + 2] = v; no other byte
\* of the memory, no register and not I is changed.
\* ------------------------------------------------------------------------
C21_StoreBcd ==
    [][CycleNN(15, 51) =>
        \A v \in {registers[x_field(Fetched)]} :
            /\ phase' # "panicked"
            /\ i < MEMORY_SIZE => memory'[i] = v \div 100
            /\ i + 1 < MEMORY_SIZE => memory'[i + 1] = (v \div 10) % 10
            /\ i + 2 < MEMORY_SIZE => memory'[i + 2] = v % 10
            /\ i + 2 < MEMORY_SIZE =>
                    100 * memory'[i] + 10 * memory'[i + 1] + memory'[i + 2] = v
            /\ \A a \in 0..(MEMORY_SIZE - 1) : (a < i \/ a > i + 2) => memory'[a] = memory[a]
            /\ registers' = registers
            /\ i' = i]_vars

\* ------------------------------------------------------------------------
\* C22: 6XNN sets Vx = NN and 7XNN sets Vx = (Vx + NN) mod 256; for every x
\* other than F, VF and every other register are unchanged, also when the
\* addition overflows; 6A05 then 7A03 leaves VA = 8.
\* ------------------------------------------------------------------------
LoadThenAdd == Prog(<<Op(6,10,0,5), Op(7,10,0,3)>>)

C22_ImmediateNoFlag ==
    /\ [][/\ (CycleStep /\ kind(Fetched) = 6) =>
                \A x \in {x_field(Fetched)} :
                    /\ registers'[x] = nn_field(Fetched)
                    /\ x # 15 => \A k \in 0..(REGISTER_COUNT - 1) \ {x} :
                                        registers'[k] = registers[k]
          /\ (CycleStep /\ kind(Fetched) = 7) =>
                \A x \in {x_field(Fetched)} :
                    /\ registers'[x] = (registers[x] + nn_field(Fetched)) % 256
                    /\ x # 15 => \A k \in 0..(REGISTER_COUNT - 1) \ {x} :
                                        registers'[k] = registers[k]]_vars
    /\ [](rom = LoadThenAdd /\ pc = START_PC + 4 => registers[10] = 8)

\* an addition that overflowed (255 + 239) with VF = 1 before and after
C22_Witness ==
    /\ instr = Op(7, 10, 14, 15)
    /\ pc = START_PC + 2
    /\ registers[10] = 238
    /\ registers[15] = 1
    /\ last = "clock"

\* ------------------------------------------------------------------------
\* C23: on a CPU tick every pending host event is applied to the key latch,
\* in arrival order, before the instruction of that tick executes: EX9E,
\* EXA1 and FX0A of that tick see, for each key, the state the last drained
\* event of that key set (the latch of before the tick for a key without an
\* event).  A timer tick neither reads nor changes the key latch.
\* ------------------------------------------------------------------------
\* the state of key k when the instruction of this tick executes
KeyAtCycle(k) ==
    IF LastEventOf(k, "KeyDown") THEN TRUE
    ELSE IF LastEventOf(k, "KeyUp") THEN FALSE
    ELSE keys[k]

C23_InputBeforeInstruction ==
    [][/\ CycleStep => events' = <<>>
       /\ (CycleStep /\ kind(Fetched) = 14 /\ registers[x_field(Fetched)] < KEY_COUNT) =>
            \A down \in {KeyAtCycle(registers[x_field(Fetched)])} :
                /\ nn_field(Fetched) = 158 => pc' = (IF down THEN pc + 4 ELSE pc + 2)
                /\ nn_field(Fetched) = 161 => pc' = (IF down THEN pc + 2 ELSE pc + 4)
                /\ \A k \in 0..(KEY_COUNT - 1) : keys'[k] = KeyAtCycle(k)
       /\ CycleNN(15, 10) =>
            IF \E k \in 0..(KEY_COUNT - 1) : KeyAtCycle(k)
            THEN /\ pc' = pc + 2
                 /\ registers'[x_field(Fetched)] \in 0..(KEY_COUNT - 1)
                 /\ KeyAtCycle(registers'[x_field(Fetched)])
                 /\ \A k \in 0..(KEY_COUNT - 1) :
                        keys'[k] = (KeyAtCycle(k) /\ k # registers'[x_field(Fetched)])
            ELSE /\ pc' = pc
                 /\ registers' = registers
                 /\ \A k \in 0..(KEY_COUNT - 1) : ~keys'[k]
       /\ TimerStep =>
            /\ keys' = keys
            /\ events' = events
            /\ delay_timer' = Max(delay_timer - 1, 0)
            /\ sound_timer' = Max(sound_timer - 1, 0)
            /\ UNCHANGED <<pc, registers>>]_vars

\* E09E has run on a tick whose drain left key 0 down: the key was seen down
\* and the skip taken
C23_Witness ==
    /\ rom \in RomsKeys
    /\ instr = Op(14, 0, 9, 14)
    /\ pc = START_PC + 4
    /\ keys[0]
    /\ events = <<>>
    /\ last = "clock"

\* ------------------------------------------------------------------------
\* C24: every fetch reads inside the memory.  A cycle starts only with
\* PC <= 4094, so both bytes fetched are below 4096; once PC is 4095 or
\* more after a cycle (off the end of the memory, a jump to 0xFFF, BNNN
\* with NNN + V0 >= 4095, a return to such an address) the loop stops
\* without another instruction or tick and run returns Ok.
\* ------------------------------------------------------------------------
C24_FetchInsideMemory ==
    /\ [](phase = "running" => pc <= MEMORY_SIZE - 2)
    /\ [][/\ CycleStep =>
                /\ pc + 1 < MEMORY_SIZE
                /\ instr' = memory[pc] * 256 + memory[pc + 1]
                /\ (pc' >= MEMORY_SIZE - 1 /\ phase' # "panicked") => phase' = "exit_ok"
                /\ (pc' < MEMORY_SIZE - 1 /\ running' /\ phase' # "panicked")
                        => phase' = "running"
          /\ phase = "exit_ok" => UNCHANGED vars]_vars

\* the return at 0x202 popped 0x1000, pushed by the call at 0xFFE
C24_Witness ==
    /\ phase = "exit_ok"
    /\ instr = RET
    /\ pc = MEMORY_SIZE
    /\ stack = <<>>
    /\ running

\* ------------------------------------------------------------------------
\* C25: a host Quit or Escape key-down is noticed only on a CPU tick; the
\* instruction of that tick is still executed, after the drain; after that
\* tick no instruction cycle and no timer tick is served, whatever is still
\* queued, and run returns Ok.
\* ------------------------------------------------------------------------
C25_ShutdownOrder ==
    [][/\ (TimerStep /\ QuitPending) =>
            /\ running'
            /\ events' = events
            /\ phase' = "running"
       /\ (CycleStep /\ QuitPending) =>
            \A m1 \in {run_cycle([Machine EXCEPT !.keys = LatchAtCycle], 0, FALSE)} :
                /\ events' = <<>>
                /\ ~running'
                /\ instr' = Fetched
                /\ pc' = m1.pc
                /\ registers' = m1.registers
                /\ keys' = m1.keys
                /\ stack' = m1.stack
                /\ grid' = m1.grid
                /\ memory' = m1.memory
                /\ phase' # "panicked" => phase' = "exit_ok"
       /\ (CycleStep /\ ~QuitPending /\ phase' = "exit_ok") => pc' >= MEMORY_SIZE - 1
       /\ (phase = "exit_ok" /\ ~running) => UNCHANGED vars]_vars

\* key-down X and a quit were drained on one tick: E09E of that tick ran and
\* skipped, the loop is left with a notification queued on either channel
C25_Witness ==
    /\ rom \in RomsKeys
    /\ phase = "exit_ok"
    /\ ~running
    /\ instr = Op(14, 0, 9, 14)
    /\ pc = START_PC + 4
    /\ keys[0]
    /\ timer_q > 0
    /\ clock_q > 0

\* ------------------------------------------------------------------------
\* C26: the latch holds events, not presses.  When the key-down of a key and
\* the key-up that follows it are drained on one CPU tick, the latch of the
\* key is false when the instruction of that tick executes: EX9E does not
\* skip, EXA1 skips, FX0A does not take the key.  After FX0A has taken key
\* k, the latch of k is false, and it stays false until a key-down of k is
\* drained.
\* ------------------------------------------------------------------------
\* a key-down of key k, then its key-up as the last event of k, both pending
DownThenUp(k) ==
    /\ LastEventOf(k, "KeyUp")
    /\ \E idx \in 1..Len(events) :
            events[idx] = [type |-> "KeyDown", scancode |-> default_keyboard_layout[k]]

C26_LatchHoldsEvents ==
    [][/\ \A k \in 0..(KEY_COUNT - 1) :
            /\ (CycleStep /\ DownThenUp(k)) =>
                    /\ ~keys'[k]
                    /\ (kind(Fetched) = 14 /\ registers[x_field(Fetched)] = k) =>
                            /\ nn_field(Fetched) = 158 => pc' = pc + 2
                            /\ nn_field(Fetched) = 161 => pc' = pc + 4
                    /\ (kind(Fetched) = 15 /\ nn_field(Fetched) = 10) =>
                            \/ pc' = pc /\ registers' = registers
                            \/ pc' = pc + 2 /\ registers'[x_field(Fetched)] # k
            /\ (~keys[k] /\ keys'[k]) => (CycleStep /\ LastEventOf(k, "KeyDown"))
       /\ (CycleNN(15, 10) /\ pc' = pc + 2) =>
            /\ registers'[x_field(Fetched)] \in 0..(KEY_COUNT - 1)
            /\ ~keys'[registers'[x_field(Fetched)]]]_vars

\* F30A has taken key 1, whose latch is false again
C26_Witness ==
    /\ rom \in RomsKeys
    /\ instr = Op(15, 3, 0, 10)
    /\ pc = START_PC + 10
    /\ registers[3] = 1
    /\ ~keys[1]
    /\ last = "clock"

\* ------------------------------------------------------------------------
\* C27: a machine is created with PC = 0x200, I = 0, all registers and both
\* timers 0, an empty stack and zeroed memory; load_font changes only the
\* font bytes from 0x050 on, which lie below 0x200; a successful load_rom of
\* an image of length L changes only memory[0x200 .. 0x200 + L); both leave
\* registers, PC, I, stack and timers as they were, and load_rom leaves the
\* font and the reserved area.
\* ------------------------------------------------------------------------
C27_LoadingConfined ==
    /\ [](phase = "load_font" =>
            /\ pc = 512
            /\ i = 0
            /\ \A k \in 0..15 : registers[k] = 0
            /\ delay_timer = 0
            /\ sound_timer = 0
            /\ stack = <<>>
            /\ \A a \in 0..4095 : memory[a] = 0)
    /\ [][/\ phase = "load_font" =>
                /\ phase' = "load_rom"
                /\ 80 + Len(DEFAULTFONT) <= 512
                /\ \A a \in 0..4095 :
                      memory'[a] = (IF a >= 80 /\ a < 80 + Len(DEFAULTFONT)
                                    THEN DEFAULTFONT[a - 80 + 1] ELSE memory[a])
                /\ UNCHANGED <<registers, pc, i, stack, delay_timer, sound_timer>>
          /\ (phase = "load_rom" /\ phase' = "run") =>
                /\ \A a \in 0..4095 :
                      (a < 512 \/ a >= 512 + Len(rom)) => memory'[a] = memory[a]
                /\ \A a \in 80..(80 + Len(DEFAULTFONT) - 1) :
                      memory'[a] = DEFAULTFONT[a - 80 + 1]
                /\ UNCHANGED <<registers, pc, i, stack, delay_timer, sound_timer>>]_vars

\* font and program are loaded: the font at 0x050 .. 0x09F, zero bytes up to
\* 0x1FF, the image from 0x200 on
C27_Witness ==
    /\ phase = "run"
    /\ rom = ClearAndLoop
    /\ memory[80] = 240
    /\ memory[159] = 128
    /\ memory[160] = 0
    /\ memory[511] = 0
    /\ memory[512] = 0
    /\ memory[513] = 224
    /\ memory[516] = 0
    /\ pc = 512

====
